---- MODULE Spec2Model ----
(***************************************************************************)
(* Model of api/generate-quiz.js: the quiz request handler with its chain  *)
(* Gemini -> OpenAI -> Hugging Face -> local fallback generator.           *)
(*                                                                         *)
(* JavaScript strings are TLA+ strings (template literals are \o).  A      *)
(* JavaScript object is a function from property names to values, so a     *)
(* missing property is a name outside DOMAIN.  One handler invocation is   *)
(* one element of DOMAIN req; everything the handler does between two      *)
(* awaits is one action.  TLA+ string literals cannot hold the backtick,   *)
(* so "~" is written for that character: "~~~json" is the opening fence.   *)
(***************************************************************************)
EXTENDS Integers, Sequences, FiniteSets, TLC

(***************************************************************************)
(* Bounds                                                                  *)
(***************************************************************************)
\* largest num_questions a request carries explicitly
MaxCount == 4
\* largest number of questions a provider delivers in its JSON
MaxProviderLen == 5
\* latest value of the wall clock read by new Date()
MaxTime == 1

(***************************************************************************)
(* Strings                                                                 *)
(***************************************************************************)
Whitespace == {" ", "\n", "\t", "\r"}

CharAt(s, i) == SubSeq(s, i, i)

startsWith(s, p) == Len(s) >= Len(p) /\ SubSeq(s, 1, Len(p)) = p

endsWith(s, p) == Len(s) >= Len(p) /\ SubSeq(s, Len(s) - Len(p) + 1, Len(s)) = p

\* String.prototype.substring(from): the characters after the first `from`
substringFrom(s, from) == SubSeq(s, from + 1, Len(s))

\* String.prototype.substring(0, to)
substringTo(s, to) == SubSeq(s, 1, to)

\* String.prototype.trim
trim(s) ==
    LET keep == {i \in 1..Len(s) : CharAt(s, i) \notin Whitespace}
    IN  IF keep = {} THEN ""
        ELSE LET lo == CHOOSE i \in keep : \A j \in keep : i <= j
                 hi == CHOOSE i \in keep : \A j \in keep : j <= i
             IN  SubSeq(s, lo, hi)

\* String.prototype.match(/\{[\s\S]*\}/): the greedy span from the first "{"
\* to the last "}" after it; matched = FALSE stands for null
matchBraces(s) ==
    LET opens == {i \in 1..Len(s) : CharAt(s, i) = "{"}
    IN  IF opens = {} THEN [matched |-> FALSE]
        ELSE LET lo == CHOOSE i \in opens : \A j \in opens : i <= j
                 closes == {i \in (lo + 1)..Len(s) : CharAt(s, i) = "}"}
             IN  IF closes = {} THEN [matched |-> FALSE]
                 ELSE LET hi == CHOOSE i \in closes : \A j \in closes : j <= i
                      IN  [matched |-> TRUE, text |-> SubSeq(s, lo, hi)]

(***************************************************************************)
(* JSON text the providers can send, and JSON.parse                        *)
(***************************************************************************)
\* a well-formed multiple-choice question as a provider words it
ProviderMC ==
    [question |-> "Which phase comes first?", type |-> "multiple-choice",
     options |-> <<"A) 1", "B) 2", "C) 3", "D) 4">>, answer |-> "A) 1",
     explanation |-> "It is the first.", difficulty |-> "easy"]

\* a well-formed true/false question as a provider words it
ProviderTF ==
    [question |-> "Cells divide.", type |-> "true-false", answer |-> "False",
     explanation |-> "They do.", difficulty |-> "hard"]

Defects == {"essay", "answer-not-in-options", "three-options", "bad-difficulty", "tf-maybe"}

\* a question that breaks one rule of the quiz schema
DefectiveQuestion(d) ==
    CASE d = "essay" -> [ProviderMC EXCEPT !.type = "essay"]
      [] d = "answer-not-in-options" -> [ProviderMC EXCEPT !.answer = "E) 5"]
      [] d = "three-options" -> [ProviderMC EXCEPT !.options = <<"A) 1", "B) 2", "C) 3">>]
      [] d = "bad-difficulty" -> [ProviderMC EXCEPT !.difficulty = "extreme"]
      [] d = "tf-maybe" -> [ProviderTF EXCEPT !.answer = "Maybe"]

\* what a provider may put into its JSON: n questions, at most one of them
\* defective (at position `at`), a declared count of n + surplus, and a title
\* and a source that are present or not
ProviderParams ==
    {p \in [n : 0..MaxProviderLen, defect : Defects \cup {"none"}, at : 0..MaxProviderLen,
            surplus : {0, 2}, meta : {"titled", "untitled", "sourced"}] :
        /\ p.defect = "none" => p.at = 0
        /\ p.defect # "none" => p.n >= 1 /\ p.at \in {1, p.n}}

\* the object a provider's JSON denotes
ProviderObject(p) ==
    LET qs == [i \in 1..p.n |->
                  IF i = p.at THEN DefectiveQuestion(p.defect)
                  ELSE IF i % 2 = 1 THEN ProviderMC ELSE ProviderTF]
        core == [total_questions |-> p.n + p.surplus, questions |-> qs]
    IN  CASE p.meta = "titled" -> [title |-> "Cell Quiz"] @@ core
          [] p.meta = "untitled" -> core
          [] p.meta = "sourced" -> [title |-> "Cell Quiz", source |-> "the provider"] @@ core

\* the JSON text of that object; the members are abbreviated to the
\* parameters, the braces are the real ones
ProviderJSON(p) ==
    "{" \o ToString(p.n) \o "," \o p.defect \o "@" \o ToString(p.at) \o ",+"
        \o ToString(p.surplus) \o "," \o p.meta \o "}"

JSONTable ==
    [t \in {ProviderJSON(p) : p \in ProviderParams} |->
        ProviderObject(CHOOSE p \in ProviderParams : ProviderJSON(p) = t)]

\* JSON.parse: whitespace around the value is skipped; ok = FALSE is the
\* SyntaxError; there is no lenient mode
JSONparse(text) ==
    LET t == trim(text)
    IN  IF t = "null" THEN [ok |-> TRUE, isNull |-> TRUE]
        ELSE IF t = "{}" THEN [ok |-> TRUE, isNull |-> FALSE, value |-> <<>>]
        ELSE IF t \in DOMAIN JSONTable
             THEN [ok |-> TRUE, isNull |-> FALSE, value |-> JSONTable[t]]
             ELSE [ok |-> FALSE]

\* the texts a text-generation backend can answer with
ProviderTexts ==
    UNION {{j,
            "~~~json\n" \o j \o "\n~~~",
            "~~~JSON\n" \o j \o "\n~~~",
            "~~~\n" \o j \o "\n~~~",
            "  " \o j \o "\n",
            "Here is your quiz: " \o j \o " Enjoy!"} : j \in DOMAIN JSONTable}
    \cup {"", "not json at all", "null", "{}", "~~~json", "{} and {}"}

\* obj.name = value
SetProp(obj, name, value) ==
    [f \in (DOMAIN obj) \cup {name} |-> IF f = name THEN value ELSE obj[f]]

(***************************************************************************)
(* The generators that need no network                                     *)
(***************************************************************************)
Times == 0..MaxTime

\* new Date().toISOString() when the clock reads `now`
toISOString(now) == ToString(now)

\* variant: the thirds are floored
difficultyAt_Floored(i, numQuestions) ==
    IF i < numQuestions \div 3 THEN "easy"
    ELSE IF i < 2 * (numQuestions \div 3) THEN "medium" ELSE "hard"

\* i < numQuestions / 3 ? "easy" : i < 2 * numQuestions / 3 ? "medium" : "hard"
\* (the division is exact, not floored)
difficultyAt(i, numQuestions) ==
    IF 3 * i < numQuestions THEN "easy"
    ELSE IF 3 * i < 2 * numQuestions THEN "medium" ELSE "hard"

\* variant: the answer is worded as in createStructuredQuiz
fallbackAnswer_Reworded(topic) == "A) A key concept in " \o topic

\* the answer of a multiple-choice question of generateFallbackQuiz
fallbackAnswer(topic) == "A) An important concept related to " \o topic

\* variant: the parity test is inverted
isMultipleChoice_Inverted(i) == i % 2 = 1

\* const isMultipleChoice = i % 2 === 0 in generateFallbackQuiz
isMultipleChoice(i) == i % 2 = 0

\* the loop of generateFallbackQuiz: one question for each i with
\* 0 <= i < numQuestions
fallbackQuestions(topic, numQuestions) ==
    LET question(i) ==
            IF isMultipleChoice(i)
            THEN [question |-> "What is a key aspect of " \o topic \o "?",
                  type |-> "multiple-choice",
                  options |-> <<"A) An important concept related to " \o topic,
                                "B) A secondary aspect of " \o topic,
                                "C) A minor detail about " \o topic,
                                "D) An unrelated topic">>,
                  answer |-> fallbackAnswer(topic),
                  explanation |-> "This question tests your understanding of "
                                      \o topic \o " fundamentals.",
                  difficulty |-> difficultyAt(i, numQuestions)]
            ELSE [question |-> "True or False: " \o topic
                                   \o " is an important subject worth studying.",
                  type |-> "true-false",
                  answer |-> "True",
                  explanation |-> topic \o " is indeed an important subject that provides valuable knowledge.",
                  difficulty |-> difficultyAt(i, numQuestions)]
    IN  [k \in 1..numQuestions |-> question(k - 1)]

\* variant: the title carries the time of generation
generateFallbackQuiz_Stamped(topic, numQuestions, now) ==
    [title |-> topic \o " Quiz " \o toISOString(now),
     total_questions |-> numQuestions,
     questions |-> fallbackQuestions(topic, numQuestions),
     source |-> "Fallback quiz for " \o topic,
     generated_at |-> toISOString(now)]

generateFallbackQuiz(topic, numQuestions, now) ==
    [title |-> topic \o " Quiz",
     total_questions |-> numQuestions,
     questions |-> fallbackQuestions(topic, numQuestions),
     source |-> "Fallback quiz for " \o topic,
     generated_at |-> toISOString(now)]

\* variant: the structured quiz is the fallback generator's
createStructuredQuiz_AsFallback(topic, numQuestions, now) ==
    generateFallbackQuiz(topic, numQuestions, now)

createStructuredQuiz(topic, numQuestions, now) ==
    LET question(i) ==
            IF i % 2 = 0
            THEN [question |-> "What is an important aspect of " \o topic \o "?",
                  type |-> "multiple-choice",
                  options |-> <<"A) A key concept in " \o topic,
                                "B) A secondary element of " \o topic,
                                "C) A minor detail about " \o topic,
                                "D) An unrelated topic">>,
                  answer |-> "A) A key concept in " \o topic,
                  explanation |-> "This question tests your understanding of "
                                      \o topic \o " fundamentals.",
                  difficulty |-> difficultyAt(i, numQuestions)]
            ELSE [question |-> "True or False: " \o topic
                                   \o " is a valuable subject to study.",
                  type |-> "true-false",
                  answer |-> "True",
                  explanation |-> topic \o " provides important knowledge and understanding.",
                  difficulty |-> difficultyAt(i, numQuestions)]
    IN  [title |-> topic \o " Quiz",
         total_questions |-> numQuestions,
         questions |-> [k \in 1..numQuestions |-> question(k - 1)],
         source |-> "AI-generated quiz about " \o topic,
         generated_at |-> toISOString(now)]

(***************************************************************************)
(* Requests                                                                *)
(***************************************************************************)
Methods == {"OPTIONS", "GET", "POST"}

ApiKeys == {"", "key"}

Topics == {"", "Mitosis", "{}"}

Counts == (-1)..MaxCount

\* num_questions = 10 in the destructuring of req.body
DefaultNumQuestions == 10

\* req.body when it is an object: each of the three properties may be missing
Bodies ==
    {k @@ t @@ c :
        k \in {<<>>} \cup {[api_key |-> a] : a \in ApiKeys},
        t \in {<<>>} \cup {[topic |-> a] : a \in Topics},
        c \in {<<>>} \cup {[num_questions |-> a] : a \in Counts}}

\* a request: hasBody = FALSE is a req.body that is undefined or null
Requests ==
    {[method |-> m, hasBody |-> TRUE, body |-> b] : m \in Methods, b \in Bodies}
    \cup {[method |-> m, hasBody |-> FALSE, body |-> <<>>] : m \in Methods}

\* the providers reached over the network
NetworkProviders == {"Gemini", "HuggingFace"}

\* const { api_key, topic, num_questions = 10 } = req.body; "" also stands
\* for undefined, both are falsy
apiKeyOf(rq) == IF "api_key" \in DOMAIN rq.body THEN rq.body.api_key ELSE ""

topicOf(rq) == IF "topic" \in DOMAIN rq.body THEN rq.body.topic ELSE ""

numQuestionsOf(rq) ==
    IF "num_questions" \in DOMAIN rq.body THEN rq.body.num_questions
    ELSE DefaultNumQuestions

\* variant: the api_key check is absent
credentialMissing_Unchecked(rq) == FALSE

\* if (!api_key)
credentialMissing(rq) == apiKeyOf(rq) = ""

\* variant: the topic check is absent
topicMissing_Unchecked(rq) == FALSE

\* if (!topic)
topicMissing(rq) == topicOf(rq) = ""

(***************************************************************************)
(* State                                                                   *)
(***************************************************************************)
VARIABLES
    req,        \* req[r]: the request of invocation r
    hangs,      \* hangs[r]: the providers that never answer invocation r
    pc,         \* pc[r]: where invocation r is suspended
    attempts,   \* attempts[r]: the adapters tried so far, in order, with outcome
    inflight,   \* inflight[r]: the providers with a network call outstanding
    sent,       \* sent[r]: the responses written to res, in order
    variant,    \* which of the two handlers of the file serves the requests
    probe       \* an adapter applied to one response body, outside any request

vars == <<req, hangs, pc, attempts, inflight, sent, variant, probe>>

Invocations == DOMAIN req

Init ==
    /\ req \in [{1} -> Requests]
    /\ hangs \in [{1} -> SUBSET NetworkProviders]
    /\ pc = [r \in {1} |-> "start"]
    /\ attempts = [r \in {1} |-> <<>>]
    /\ inflight = [r \in {1} |-> {}]
    /\ sent = [r \in {1} |-> <<>>]
    /\ variant = "chain"
    /\ probe = [stage |-> "off"]

(***************************************************************************)
(* The chain of the handler                                                *)
(***************************************************************************)
\* variant: no catch around the Hugging Face call
NextAfter_Uncaught(p) ==
    CASE p = "Gemini" -> "OpenAI"
      [] p = "OpenAI" -> "HuggingFace"
      [] p = "HuggingFace" -> "throw"

\* variant: the catch of the Gemini call goes straight to Hugging Face
NextAfter_SkipOpenAI(p) ==
    CASE p = "Gemini" -> "HuggingFace"
      [] p = "OpenAI" -> "HuggingFace"
      [] p = "HuggingFace" -> "fallback"

\* variant: the catch of the Gemini call tries Gemini again
NextAfter_RetryGemini(p) ==
    CASE p = "Gemini" -> "Gemini"
      [] p = "OpenAI" -> "HuggingFace"
      [] p = "HuggingFace" -> "fallback"

\* the nested try/catch of the handler: what runs when adapter p has thrown.
\* "throw" would be an adapter with no catch around it, whose error reaches
\* the catch at the end of the handler.
NextAfter(p) ==
    CASE p = "Gemini" -> "OpenAI"
      [] p = "OpenAI" -> "HuggingFace"
      [] p = "HuggingFace" -> "fallback"

\* generateQuizWithOpenAI: a placeholder that always throws
generateQuizWithOpenAI == [ok |-> FALSE, message |-> "OpenAI API not configured"]

\* the last attempt of the log gets its outcome
Settle(log, outcome) == [log EXCEPT ![Len(log)].outcome = outcome]

\* adapter p is tried with `log` the attempts before it: the adapters that
\* throw without a network call are passed, and `target` is where the
\* handler comes to rest (an await, the fallback generator or the final catch)
RECURSIVE Advance(_, _)
Advance(p, log) ==
    CASE p = "OpenAI" ->
            Advance(NextAfter(p),
                    Append(log, [adapter |-> p, outcome |-> generateQuizWithOpenAI.message]))
      [] p \in NetworkProviders ->
            [target |-> p, attempts |-> Append(log, [adapter |-> p, outcome |-> "pending"])]
      [] p = "fallback" ->
            [target |-> p, attempts |-> Append(log, [adapter |-> p, outcome |-> "ok"])]
      [] p = "throw" ->
            [target |-> p, attempts |-> log]

\* variant: res is kept in a variable of the module, set by the first
\* invocation
Respond_SharedRes(r, quiz) ==
    /\ sent' = [sent EXCEPT ![1] = Append(@, [status |-> 200, body |-> quiz])]
    /\ pc' = [pc EXCEPT ![r] = "done"]

\* res.status(200).json(quiz)
Respond(r, quiz) ==
    /\ sent' = [sent EXCEPT ![r] = Append(@, [status |-> 200, body |-> quiz])]
    /\ pc' = [pc EXCEPT ![r] = "done"]

\* res.status(code).json({ error: message })
RespondError(r, code, message) ==
    /\ sent' = [sent EXCEPT ![r] = Append(@, [status |-> code, error |-> message])]
    /\ pc' = [pc EXCEPT ![r] = "done"]

\* the handler goes on with adapter p after the attempts in `log`; `settled`
\* are the providers whose call has just completed
Try(r, p, log, settled) ==
    LET a == Advance(p, log)
    IN  /\ attempts' = [attempts EXCEPT ![r] = a.attempts]
        /\ CASE a.target = "Gemini" ->
                    /\ inflight' = [inflight EXCEPT ![r] = (@ \ settled) \cup {"Gemini"}]
                    /\ pc' = [pc EXCEPT ![r] = "awaitGeminiFetch"]
                    /\ UNCHANGED sent
             [] a.target = "HuggingFace" ->
                    /\ inflight' = [inflight EXCEPT ![r] = (@ \ settled) \cup {"HuggingFace"}]
                    /\ pc' = [pc EXCEPT ![r] = "awaitHFFetch"]
                    /\ UNCHANGED sent
             [] a.target = "fallback" ->
                    /\ inflight' = [inflight EXCEPT ![r] = @ \ settled]
                    /\ \E now \in Times :
                          Respond(r, generateFallbackQuiz(topicOf(req[r]), numQuestionsOf(req[r]), now))
             [] a.target = "throw" ->
                    /\ inflight' = [inflight EXCEPT ![r] = @ \ settled]
                    /\ RespondError(r, 500, "Failed to generate quiz: "
                                                \o a.attempts[Len(a.attempts)].outcome)

\* the second handler of the file calls generateQuizWithGemini with no catch
\* of its own: the error reaches the catch at the end of the handler
NextAfterDirect(p) == "throw"

\* adapter p has thrown `message`: the catch around it runs
Caught(r, p, message) ==
    Try(r, IF variant = "chain" THEN NextAfter(p) ELSE NextAfterDirect(p),
        Settle(attempts[r], message), {p})

\* adapter p has returned quiz
Returned(r, p, quiz) ==
    /\ attempts' = [attempts EXCEPT ![r] = Settle(@, "ok")]
    /\ inflight' = [inflight EXCEPT ![r] = @ \ {p}]
    /\ Respond(r, quiz)

(***************************************************************************)
(* The adapters, from the point where the response body has arrived        *)
(***************************************************************************)
\* how a fetch() settles: the promise rejects, or resolves with response.ok
\* false or true
FetchOutcomes == {"rejected", "not-ok", "ok"}

\* what response.json() gives the Gemini adapter: a body that is not JSON,
\* an envelope without candidates[0].content, a content without parts[0],
\* or the text of the first part of the first candidate
GeminiData ==
    {[kind |-> "not-json"], [kind |-> "no-candidates"], [kind |-> "no-parts"]}
    \cup {[kind |-> "text", text |-> t] : t \in ProviderTexts}

\* what response.json() gives the Hugging Face adapter: a body that is not
\* JSON, null, an array whose first element has no generated_text, or the
\* generated text
HuggingFaceData ==
    {[kind |-> "not-json"], [kind |-> "null"], [kind |-> "no-generated-text"]}
    \cup {[kind |-> "text", text |-> t] : t \in ProviderTexts}

\* the texts used when two invocations run side by side
PairTexts ==
    LET j == ProviderJSON([n |-> 1, defect |-> "none", at |-> 0, surplus |-> 0, meta |-> "titled"])
    IN  {j, "Here is your quiz: " \o j \o " Enjoy!", "not json at all", ""}

\* the response bodies of S that the providers send: all of them to a single
\* invocation, those with a text of PairTexts when invocations run side by side
Heard(S) ==
    IF Cardinality(Invocations) > 1
    THEN {d \in S : d.kind = "text" => d.text \in PairTexts}
    ELSE S

\* the clean-up of generateQuizWithGemini: trim, drop a leading "~~~json",
\* drop a trailing "~~~"
cleanText(quizText) ==
    LET t1 == trim(quizText)
        t2 == IF startsWith(t1, "~~~json") THEN substringFrom(t1, 7) ELSE t1
    IN  IF endsWith(t2, "~~~") THEN substringTo(t2, Len(t2) - 3) ELSE t2

\* generateQuizWithGemini once response.ok held: ok = FALSE is a throw
generateQuizWithGemini(topic, data, now) ==
    CASE data.kind = "not-json" -> [ok |-> FALSE, message |-> "Unexpected token in JSON"]
      [] data.kind = "no-candidates" -> [ok |-> FALSE, message |-> "Invalid response from API"]
      [] data.kind = "no-parts" -> [ok |-> FALSE, message |-> "Cannot read properties of undefined"]
      [] data.kind = "text" ->
            LET parsed == JSONparse(cleanText(data.text))
            IN  IF ~parsed.ok THEN [ok |-> FALSE, message |-> "Unexpected token in JSON"]
                ELSE IF parsed.isNull
                     THEN [ok |-> FALSE, message |-> "Cannot set properties of null"]
                     ELSE [ok |-> TRUE,
                           quiz |-> SetProp(SetProp(parsed.value, "source", "AI analysis of " \o topic),
                                            "generated_at", toISOString(now))]

\* the prompt of generateQuizWithHuggingFace
huggingFacePrompt(topic, numQuestions) ==
    "Create a quiz about \"" \o topic \o "\" with " \o ToString(numQuestions)
        \o " questions. Use only multiple-choice and true/false questions. Format as JSON with title, total_questions, and questions array."

\* generateQuizWithHuggingFace once response.ok held: ok = FALSE is the throw
\* of its catch block
generateQuizWithHuggingFace(topic, numQuestions, data, now) ==
    LET failed(m) == [ok |-> FALSE, message |-> "Hugging Face API failed: " \o m]
    IN  CASE data.kind = "not-json" -> failed("Unexpected token in JSON")
          [] data.kind = "null" -> failed("Cannot read properties of null")
          [] OTHER ->
                LET prompt == huggingFacePrompt(topic, numQuestions)
                    quizText == IF data.kind = "text" /\ data.text # "" THEN data.text ELSE prompt
                    jsonMatch == matchBraces(quizText)
                IN  IF jsonMatch.matched
                    THEN LET parsed == JSONparse(jsonMatch.text)
                         IN  IF parsed.ok /\ ~parsed.isNull
                             THEN [ok |-> TRUE, quiz |-> parsed.value]
                             ELSE failed("Unexpected token in JSON")
                    ELSE [ok |-> TRUE, quiz |-> createStructuredQuiz(topic, numQuestions, now)]

(***************************************************************************)
(* The handler                                                             *)
(***************************************************************************)
\* from the entry of the handler to its first await or to its response
Receive(r) ==
    /\ pc[r] = "start"
    /\ UNCHANGED <<req, hangs, variant, probe>>
    /\ LET rq == req[r]
       IN  IF rq.method = "OPTIONS"
           THEN /\ sent' = [sent EXCEPT ![r] = Append(@, [status |-> 200])]
                /\ pc' = [pc EXCEPT ![r] = "done"]
                /\ UNCHANGED <<attempts, inflight>>
           ELSE IF rq.method # "POST"
           THEN /\ RespondError(r, 405, "Method not allowed")
                /\ UNCHANGED <<attempts, inflight>>
           ELSE IF ~rq.hasBody
           THEN /\ RespondError(r, 500, "Failed to generate quiz: Cannot destructure property 'api_key'")
                /\ UNCHANGED <<attempts, inflight>>
           ELSE IF credentialMissing(rq)
           THEN /\ RespondError(r, 400, "API key is required")
                /\ UNCHANGED <<attempts, inflight>>
           ELSE IF topicMissing(rq)
           THEN /\ RespondError(r, 400, "Topic is required")
                /\ UNCHANGED <<attempts, inflight>>
           ELSE Try(r, "Gemini", <<>>, {})

\* the fetch of generateQuizWithGemini settles
GeminiFetchSettles(r) ==
    /\ pc[r] = "awaitGeminiFetch"
    /\ "Gemini" \notin hangs[r]
    /\ UNCHANGED <<req, hangs, variant, probe>>
    /\ \E o \in FetchOutcomes :
          CASE o = "rejected" -> Caught(r, "Gemini", "fetch failed")
            [] o = "not-ok" -> Caught(r, "Gemini", "API request failed")
            [] o = "ok" -> /\ pc' = [pc EXCEPT ![r] = "awaitGeminiBody"]
                           /\ UNCHANGED <<attempts, inflight, sent>>

\* response.json() of generateQuizWithGemini settles
GeminiBodySettles(r) ==
    /\ pc[r] = "awaitGeminiBody"
    /\ UNCHANGED <<req, hangs, variant, probe>>
    /\ \E data \in Heard(GeminiData), now \in Times :
          LET result == generateQuizWithGemini(topicOf(req[r]), data, now)
          IN  IF result.ok THEN Returned(r, "Gemini", result.quiz)
              ELSE Caught(r, "Gemini", result.message)

\* the fetch of generateQuizWithHuggingFace settles
HuggingFaceFetchSettles(r) ==
    /\ pc[r] = "awaitHFFetch"
    /\ "HuggingFace" \notin hangs[r]
    /\ UNCHANGED <<req, hangs, variant, probe>>
    /\ \E o \in FetchOutcomes :
          CASE o = "rejected" -> Caught(r, "HuggingFace", "Hugging Face API failed: fetch failed")
            [] o = "not-ok" -> Caught(r, "HuggingFace", "Hugging Face API failed: Hugging Face API error")
            [] o = "ok" -> /\ pc' = [pc EXCEPT ![r] = "awaitHFBody"]
                           /\ UNCHANGED <<attempts, inflight, sent>>

\* response.json() of generateQuizWithHuggingFace settles
HuggingFaceBodySettles(r) ==
    /\ pc[r] = "awaitHFBody"
    /\ UNCHANGED <<req, hangs, variant, probe>>
    /\ \E data \in Heard(HuggingFaceData), now \in Times :
          LET result == generateQuizWithHuggingFace(topicOf(req[r]), numQuestionsOf(req[r]), data, now)
          IN  IF result.ok THEN Returned(r, "HuggingFace", result.quiz)
              ELSE Caught(r, "HuggingFace", result.message)

Next ==
    \/ \E r \in Invocations : Receive(r)
    \/ \E r \in Invocations : GeminiFetchSettles(r)
    \/ \E r \in Invocations : GeminiBodySettles(r)
    \/ \E r \in Invocations : HuggingFaceFetchSettles(r)
    \/ \E r \in Invocations : HuggingFaceBodySettles(r)

Spec == Init /\ [][Next]_vars

\* the runtime runs every continuation that is ready, and a provider that is
\* not hanging settles its call
Fairness ==
    \A r \in {1} :
        /\ WF_vars(Receive(r))
        /\ WF_vars(GeminiFetchSettles(r))
        /\ WF_vars(GeminiBodySettles(r))
        /\ WF_vars(HuggingFaceFetchSettles(r))
        /\ WF_vars(HuggingFaceBodySettles(r))

FairSpec == Spec /\ Fairness

\* the requests of two invocations that run side by side
PairRequests ==
    {rq \in Requests :
        /\ rq.method = "POST" /\ rq.hasBody
        /\ DOMAIN rq.body = {"api_key", "topic", "num_questions"}
        /\ rq.body.topic # ""
        /\ rq.body.num_questions \in {1, 2}}

\* two invocations of the handler in one process, their awaits interleaved
InitPair ==
    /\ req \in [{1, 2} -> PairRequests]
    /\ hangs = [r \in {1, 2} |-> {}]
    /\ pc = [r \in {1, 2} |-> "start"]
    /\ attempts = [r \in {1, 2} |-> <<>>]
    /\ inflight = [r \in {1, 2} |-> {}]
    /\ sent = [r \in {1, 2} |-> <<>>]
    /\ variant = "chain"
    /\ probe = [stage |-> "off"]

SpecPair == InitPair /\ [][Next]_vars

TypeOK ==
    /\ \A r \in Invocations :
          /\ pc[r] \in {"start", "awaitGeminiFetch", "awaitGeminiBody", "awaitHFFetch", "awaitHFBody", "done"}
          /\ inflight[r] \subseteq NetworkProviders
          /\ Len(sent[r]) <= 1

(***************************************************************************)
(* Vocabulary of the properties                                            *)
(***************************************************************************)
\* a POST request carrying a non-empty api_key, a non-empty topic and a
\* count >= 1
ValidRequest(rq) ==
    /\ rq.method = "POST"
    /\ rq.hasBody
    /\ apiKeyOf(rq) # ""
    /\ topicOf(rq) # ""
    /\ numQuestionsOf(rq) >= 1

\* the responses of invocation r that carry a quiz
QuizzesSent(r) == {sent[r][i].body : i \in {j \in 1..Len(sent[r]) : "body" \in DOMAIN sent[r][j]}}

\* the adapters invocation r has tried, in order
Tried(r) == [i \in 1..Len(attempts[r]) |-> attempts[r][i].adapter]

\* the adapter whose result invocation r has returned
ProducedBy(r) == attempts[r][Len(attempts[r])].adapter

\* every adapter of the log has thrown
AllFailed(log) == \A i \in 1..Len(log) : log[i].outcome \notin {"pending", "ok"}

\* the quiz schema, as far as C2 states it
QuestionOK(q) ==
    /\ {"type", "answer", "difficulty"} \subseteq DOMAIN q
    /\ q.type \in {"multiple-choice", "true-false"}
    /\ q.difficulty \in {"easy", "medium", "hard"}
    /\ q.type = "multiple-choice" =>
          /\ "options" \in DOMAIN q
          /\ Len(q.options) = 4
          /\ \E k \in 1..Len(q.options) : q.options[k] = q.answer
    /\ q.type = "true-false" => q.answer \in {"True", "False"}

SchemaOK(quiz) ==
    /\ {"title", "questions"} \subseteq DOMAIN quiz
    /\ quiz.title # ""
    /\ Len(quiz.questions) >= 1
    /\ \A k \in 1..Len(quiz.questions) : QuestionOK(quiz.questions[k])

(***************************************************************************)
(* C1: a valid request (POST, non-empty api_key, non-empty topic,          *)
(* count >= 1) is never answered with an error, whatever the providers do: *)
(* every response it gets is a 200 carrying a quiz.                        *)
(***************************************************************************)
Thm_C1_ValidRequestNeverFails ==
    \A r \in Invocations :
        ValidRequest(req[r]) =>
            \A i \in 1..Len(sent[r]) :
                sent[r][i].status = 200 /\ "body" \in DOMAIN sent[r][i]

\* a valid request answered after Gemini, OpenAI and Hugging Face all threw
Wit_C1_AnsweredAfterAllProvidersFailed ==
    \E r \in Invocations :
        /\ ValidRequest(req[r])
        /\ Len(sent[r]) = 1
        /\ Tried(r) = <<"Gemini", "OpenAI", "HuggingFace", "fallback">>

(***************************************************************************)
(* C2: every quiz returned for a valid request satisfies the quiz schema;  *)
(* a provider output that violates it is never returned.                   *)
(***************************************************************************)
Cex_C2_ReturnedQuizSatisfiesSchema ==
    \A r \in Invocations :
        ValidRequest(req[r]) => \A quiz \in QuizzesSent(r) : SchemaOK(quiz)

(***************************************************************************)
(* C3: in every quiz returned, total_questions equals the length of        *)
(* questions.                                                              *)
(***************************************************************************)
Cex_C3_TotalQuestionsIsLength ==
    \A r \in Invocations :
        ValidRequest(req[r]) =>
            \A quiz \in QuizzesSent(r) :
                /\ {"total_questions", "questions"} \subseteq DOMAIN quiz
                /\ quiz.total_questions = Len(quiz.questions)

(***************************************************************************)
(* C4: the adapters are tried in the order Gemini, OpenAI, Hugging Face,   *)
(* fallback generator; each one only after all before it were tried and    *)
(* failed, and none after an earlier one succeeded.                        *)
(***************************************************************************)
ChainOrder == <<"Gemini", "OpenAI", "HuggingFace", "fallback">>

Thm_C4_AdaptersInFixedOrder ==
    \A r \in Invocations :
        /\ Len(attempts[r]) <= Len(ChainOrder)
        /\ Tried(r) = SubSeq(ChainOrder, 1, Len(attempts[r]))
        /\ \A i \in 1..(Len(attempts[r]) - 1) :
              attempts[r][i].outcome \notin {"pending", "ok"}

\* the fallback generator has run, after three failed adapters
Wit_C4_FallbackAfterThreeFailures ==
    \E r \in Invocations :
        /\ Len(attempts[r]) = 4
        /\ ProducedBy(r) = "fallback"
        /\ AllFailed(SubSeq(attempts[r], 1, 3))

(***************************************************************************)
(* C5: the source of every returned quiz is set by the handler's side,     *)
(* never taken from provider output, and names the path that produced the  *)
(* quiz: Gemini, Hugging Face or the fallback generator.                   *)
(***************************************************************************)
Provenance(path, topic) ==
    CASE path = "Gemini" -> "AI analysis of " \o topic
      [] path = "HuggingFace" -> "AI-generated quiz about " \o topic
      [] path = "fallback" -> "Fallback quiz for " \o topic

Cex_C5_SourceNamesThePath ==
    \A r \in Invocations :
        \A quiz \in QuizzesSent(r) :
            /\ "source" \in DOMAIN quiz
            /\ quiz.source = Provenance(ProducedBy(r), topicOf(req[r]))

(***************************************************************************)
(* C6: a request with an empty or missing topic, or with a count <= 0, is  *)
(* rejected before any provider is tried: no adapter runs, the fallback    *)
(* generator does not run, no quiz is returned.                            *)
(***************************************************************************)
Cex_C6_InvalidRequestRejected ==
    \A r \in Invocations :
        (topicOf(req[r]) = "" \/ numQuestionsOf(req[r]) <= 0) =>
            /\ attempts[r] = <<>>
            /\ inflight[r] = {}
            /\ QuizzesSent(r) = {}

(***************************************************************************)
(* C7: a request without api_key never causes a provider call and is never *)
(* answered from the fallback generator; as a POST with a body it is       *)
(* answered 400 "API key is required".                                     *)
(***************************************************************************)
Thm_C7_MissingCredentialRejected ==
    \A r \in Invocations :
        apiKeyOf(req[r]) = "" =>
            /\ attempts[r] = <<>>
            /\ inflight[r] = {}
            /\ QuizzesSent(r) = {}
            /\ (req[r].method = "POST" /\ req[r].hasBody) =>
                  \A i \in 1..Len(sent[r]) :
                      sent[r][i] = [status |-> 400, error |-> "API key is required"]

\* a POST with a topic and no api_key has been answered
Wit_C7_KeylessPostAnswered ==
    \E r \in Invocations :
        /\ req[r].method = "POST" /\ req[r].hasBody
        /\ apiKeyOf(req[r]) = "" /\ topicOf(req[r]) # ""
        /\ Len(sent[r]) = 1

(***************************************************************************)
(* C8: every valid request is eventually answered, even if providers never *)
(* respond (a provider call has a bounded wait).                           *)
(***************************************************************************)
Cex_C8_ValidRequestEventuallyAnswered ==
    \A r \in {1} : ValidRequest(req[r]) ~> (sent[r] # <<>>)

(***************************************************************************)
(* C9: within one request each adapter is tried at most once, at most one  *)
(* provider call is outstanding, and a call is issued only when every      *)
(* earlier attempt has completed with a failure.                           *)
(***************************************************************************)
Thm_C9_OneCallAtATime ==
    \A r \in Invocations :
        /\ \A i, j \in 1..Len(attempts[r]) :
              attempts[r][i].adapter = attempts[r][j].adapter => i = j
        /\ Cardinality(inflight[r]) <= 1
        /\ \A p \in inflight[r] :
              /\ ProducedBy(r) = p
              /\ attempts[r][Len(attempts[r])].outcome = "pending"
              /\ AllFailed(SubSeq(attempts[r], 1, Len(attempts[r]) - 1))

\* the Hugging Face call is outstanding, after the Gemini call completed
Wit_C9_SecondCallOutstanding ==
    \E r \in Invocations :
        /\ inflight[r] = {"HuggingFace"}
        /\ attempts[r][1].adapter = "Gemini"
        /\ attempts[r][1].outcome \notin {"pending", "ok"}

(***************************************************************************)
(* C10: every multiple-choice question of the fallback generator has       *)
(* exactly 4 options and an answer equal to its first option; every        *)
(* true-false question of it has no options and the answer "True".         *)
(***************************************************************************)
Thm_C10_FallbackAnswers ==
    \A r \in Invocations :
        (sent[r] # <<>> /\ attempts[r] # <<>> /\ ProducedBy(r) = "fallback"
            /\ numQuestionsOf(req[r]) >= 1) =>
            \A quiz \in QuizzesSent(r) :
                \A k \in 1..Len(quiz.questions) :
                    LET q == quiz.questions[k]
                    IN  /\ q.type \in {"multiple-choice", "true-false"}
                        /\ q.type = "multiple-choice" =>
                              /\ "options" \in DOMAIN q
                              /\ Len(q.options) = 4
                              /\ q.answer = q.options[1]
                        /\ q.type = "true-false" =>
                              /\ "options" \notin DOMAIN q
                              /\ q.answer = "True"

\* the fallback generator has answered with questions of both types
Wit_C10_FallbackQuizOfBothTypes ==
    \E r \in Invocations :
        /\ attempts[r] # <<>> /\ ProducedBy(r) = "fallback"
        /\ \E quiz \in QuizzesSent(r) :
              /\ Len(quiz.questions) >= 2
              /\ quiz.questions[1].type = "multiple-choice"
              /\ quiz.questions[2].type = "true-false"

\* invocation r has been answered by the fallback generator, for a count >= 1
FallbackAnswered(r) ==
    /\ attempts[r] # <<>>
    /\ ProducedBy(r) = "fallback"
    /\ sent[r] # <<>>
    /\ numQuestionsOf(req[r]) >= 1

(***************************************************************************)
(* C11: for every count >= 1 the fallback generator produces exactly count *)
(* questions; the one at index i (0-based) is multiple-choice when i is    *)
(* even and true-false when i is odd.                                      *)
(***************************************************************************)
Thm_C11_FallbackCountAndParity ==
    \A r \in Invocations :
        FallbackAnswered(r) =>
            \A quiz \in QuizzesSent(r) :
                /\ Len(quiz.questions) = numQuestionsOf(req[r])
                /\ \A k \in 1..Len(quiz.questions) :
                      quiz.questions[k].type =
                          IF (k - 1) % 2 = 0 THEN "multiple-choice" ELSE "true-false"

\* the fallback generator has answered a request for 3 questions
Wit_C11_FallbackQuizOfThree ==
    \E r \in Invocations :
        /\ FallbackAnswered(r)
        /\ numQuestionsOf(req[r]) = 3
        /\ \E quiz \in QuizzesSent(r) : Len(quiz.questions) = 3

(***************************************************************************)
(* C12: the fallback generator assigns difficulty by position.             *)
(* As claimed, with floored thirds: index i is easy when                   *)
(* i < floor(count/3), medium when i < 2*floor(count/3), hard otherwise.   *)
(***************************************************************************)
Cex_C12_DifficultyByFlooredThirds ==
    \A r \in Invocations :
        FallbackAnswered(r) =>
            \A quiz \in QuizzesSent(r) :
                \A k \in 1..Len(quiz.questions) :
                    LET i == k - 1
                        third == numQuestionsOf(req[r]) \div 3
                    IN  quiz.questions[k].difficulty =
                            IF i < third THEN "easy"
                            ELSE IF i < 2 * third THEN "medium" ELSE "hard"

(***************************************************************************)
(* C12 as amended: the thirds are exact, not floored: index i is easy when *)
(* 3*i < count, medium when count <= 3*i < 2*count, hard when              *)
(* 2*count <= 3*i.                                                         *)
(***************************************************************************)
Thm_C12_DifficultyByExactThirds ==
    \A r \in Invocations :
        FallbackAnswered(r) =>
            \A quiz \in QuizzesSent(r) :
                \A k \in 1..Len(quiz.questions) :
                    LET i == k - 1
                        count == numQuestionsOf(req[r])
                        d == quiz.questions[k].difficulty
                    IN  /\ d \in {"easy", "medium", "hard"}
                        /\ d = "easy" <=> 3 * i < count
                        /\ d = "medium" <=> (count <= 3 * i /\ 3 * i < 2 * count)
                        /\ d = "hard" <=> 2 * count <= 3 * i

\* the fallback generator has answered a request for 4 questions: index 1 is
\* easy, where the floored thirds make it medium
Wit_C12_FallbackQuizOfFour ==
    \E r \in Invocations :
        /\ FallbackAnswered(r)
        /\ numQuestionsOf(req[r]) = 4
        /\ \E quiz \in QuizzesSent(r) :
              /\ Len(quiz.questions) = 4
              /\ quiz.questions[2].difficulty = "easy"

(***************************************************************************)
(* C13: two runs of the fallback generator for the same topic and the same *)
(* count yield the same quiz, generated_at excepted, and the generator     *)
(* makes no provider call.                                                 *)
(***************************************************************************)
Thm_C13_FallbackDeterministic ==
    \A r1, r2 \in Invocations :
        /\ (attempts[r1] # <<>> /\ ProducedBy(r1) = "fallback") => inflight[r1] = {}
        /\ (/\ FallbackAnswered(r1) /\ FallbackAnswered(r2)
            /\ topicOf(req[r1]) = topicOf(req[r2])
            /\ numQuestionsOf(req[r1]) = numQuestionsOf(req[r2])) =>
              \A q1 \in QuizzesSent(r1), q2 \in QuizzesSent(r2) :
                  /\ DOMAIN q1 = DOMAIN q2
                  /\ \A f \in DOMAIN q1 \ {"generated_at"} : q1[f] = q2[f]

\* two invocations for the same topic and count, both answered by the
\* fallback generator, at different times
Wit_C13_TwoFallbackRuns ==
    /\ Invocations = {1, 2}
    /\ FallbackAnswered(1) /\ FallbackAnswered(2)
    /\ topicOf(req[1]) = topicOf(req[2])
    /\ numQuestionsOf(req[1]) = numQuestionsOf(req[2])
    /\ \E q1 \in QuizzesSent(1), q2 \in QuizzesSent(2) : q1.generated_at # q2.generated_at

(***************************************************************************)
(* C18: concurrent requests are independent: whatever the interleaving,    *)
(* each invocation has at most one response, sent when it is done, and     *)
(* that response is one the invocation can get alone, from its own request *)
(* and the outcomes of its own adapter calls.                              *)
(***************************************************************************)
\* the response of a request that reaches no adapter
ResponseAtBoundary(rq) ==
    IF rq.method = "OPTIONS" THEN [status |-> 200]
    ELSE IF rq.method # "POST" THEN [status |-> 405, error |-> "Method not allowed"]
    ELSE IF ~rq.hasBody
         THEN [status |-> 500, error |-> "Failed to generate quiz: Cannot destructure property 'api_key'"]
    ELSE IF apiKeyOf(rq) = "" THEN [status |-> 400, error |-> "API key is required"]
    ELSE [status |-> 400, error |-> "Topic is required"]

\* the responses a request can get alone when `path` produces its quiz
ResponsesAlone(rq, path) ==
    CASE path = "none" -> {ResponseAtBoundary(rq)}
      [] path = "Gemini" ->
            {[status |-> 200, body |-> generateQuizWithGemini(topicOf(rq), c[1], c[2]).quiz] :
                c \in {d \in Heard(GeminiData) \X Times :
                          generateQuizWithGemini(topicOf(rq), d[1], d[2]).ok}}
      [] path = "HuggingFace" ->
            {[status |-> 200,
              body |-> generateQuizWithHuggingFace(topicOf(rq), numQuestionsOf(rq), c[1], c[2]).quiz] :
                c \in {d \in Heard(HuggingFaceData) \X Times :
                          generateQuizWithHuggingFace(topicOf(rq), numQuestionsOf(rq), d[1], d[2]).ok}}
      [] path = "fallback" ->
            {[status |-> 200, body |-> generateFallbackQuiz(topicOf(rq), numQuestionsOf(rq), now)] :
                now \in Times}

Thm_C18_InvocationsIndependent ==
    \A r \in Invocations :
        /\ Len(sent[r]) <= 1
        /\ pc[r] = "done" <=> Len(sent[r]) = 1
        /\ pc[r] = "done" =>
              sent[r][1] \in ResponsesAlone(req[r],
                                 IF attempts[r] = <<>> THEN "none" ELSE ProducedBy(r))

\* the second invocation has been answered while a call of the first, for
\* another topic, is still outstanding
Wit_C18_AnsweredWhileOtherInFlight ==
    /\ Invocations = {1, 2}
    /\ topicOf(req[1]) # topicOf(req[2])
    /\ inflight[1] # {}
    /\ QuizzesSent(2) # {}

(***************************************************************************)
(* C19: the fallback-chain handler sends exactly one response on every     *)
(* path that ends, never a second one; the response is the empty 200 for   *)
(* OPTIONS, 405 for another non-POST method, 400 for a missing api_key or  *)
(* topic, and otherwise a 200 with a quiz or a 500; an OPTIONS, non-POST   *)
(* or 400 request never starts a provider call.                            *)
(***************************************************************************)
\* the request is answered before the chain is entered
StoppedAtBoundary(rq) ==
    \/ rq.method # "POST"
    \/ rq.hasBody /\ (apiKeyOf(rq) = "" \/ topicOf(rq) = "")

Thm_C19_ExactlyOneResponse ==
    \A r \in Invocations :
        LET rq == req[r]
        IN  /\ Len(sent[r]) <= 1
            /\ pc[r] = "done" <=> Len(sent[r]) = 1
            /\ StoppedAtBoundary(rq) => attempts[r] = <<>> /\ inflight[r] = {}
            /\ Len(sent[r]) = 1 =>
                  LET res == sent[r][1]
                  IN  /\ inflight[r] = {}
                      /\ IF rq.method = "OPTIONS" THEN res = [status |-> 200]
                         ELSE IF rq.method # "POST" THEN res.status = 405
                         ELSE IF StoppedAtBoundary(rq) THEN res.status = 400
                         ELSE \/ res.status = 200 /\ DOMAIN res = {"status", "body"}
                              \/ res.status = 500 /\ DOMAIN res = {"status", "error"}

\* a POST with a key and no topic has been answered with 400 and no call
Wit_C19_TopicRejectedWithoutCall ==
    \E r \in Invocations :
        /\ req[r].method = "POST"
        /\ req[r].hasBody
        /\ apiKeyOf(req[r]) # ""
        /\ topicOf(req[r]) = ""
        /\ sent[r] = <<[status |-> 400, error |-> "Topic is required"]>>
        /\ attempts[r] = <<>>

(***************************************************************************)
(* The second handler of the file: generateQuizWithGemini only             *)
(***************************************************************************)
\* one invocation of the second handler
InitDirect ==
    /\ req \in [{1} -> Requests]
    /\ hangs \in [{1} -> SUBSET {"Gemini"}]
    /\ pc = [r \in {1} |-> "start"]
    /\ attempts = [r \in {1} |-> <<>>]
    /\ inflight = [r \in {1} |-> {}]
    /\ sent = [r \in {1} |-> <<>>]
    /\ variant = "direct"
    /\ probe = [stage |-> "off"]

NextDirect ==
    \/ \E r \in Invocations : Receive(r)
    \/ \E r \in Invocations : GeminiFetchSettles(r)
    \/ \E r \in Invocations : GeminiBodySettles(r)

SpecDirect == InitDirect /\ [][NextDirect]_vars

(***************************************************************************)
(* C16: in the Gemini-only handler a failure of the Gemini call is         *)
(* absorbed: a request with a key, a topic and a count >= 1 is answered    *)
(* with a 200 quiz, never with a 500 "Failed to generate quiz" error.      *)
(***************************************************************************)
Cex_C16_DirectHandlerAbsorbsFailure ==
    variant = "direct" =>
        \A r \in Invocations :
            ValidRequest(req[r]) /\ pc[r] = "done" =>
                /\ QuizzesSent(r) # {}
                /\ \A i \in 1..Len(sent[r]) : sent[r][i].status # 500

(***************************************************************************)
(* The adapters on their own: one adapter is applied to one response body  *)
(***************************************************************************)
\* the topic and the count of a valid request and the body a provider
\* answers with; no invocation of the handler is running
InitProbe ==
    /\ req = <<>>
    /\ hangs = <<>>
    /\ pc = <<>>
    /\ attempts = <<>>
    /\ inflight = <<>>
    /\ sent = <<>>
    /\ variant = "chain"
    /\ probe \in {[stage |-> "raw", topic |-> t, numQuestions |-> n, data |-> d] :
                     t \in Topics \ {""}, n \in 1..MaxCount,
                     d \in GeminiData \cup HuggingFaceData}

\* generateQuizWithGemini runs on the body
ProbeGemini ==
    /\ probe.stage = "raw"
    /\ probe.data \in GeminiData
    /\ \E now \in Times :
          probe' = [stage |-> "done", adapter |-> "Gemini", topic |-> probe.topic,
                    numQuestions |-> probe.numQuestions, data |-> probe.data, now |-> now,
                    result |-> generateQuizWithGemini(probe.topic, probe.data, now)]
    /\ UNCHANGED <<req, hangs, pc, attempts, inflight, sent, variant>>

\* generateQuizWithHuggingFace runs on the body
ProbeHuggingFace ==
    /\ probe.stage = "raw"
    /\ probe.data \in HuggingFaceData
    /\ \E now \in Times :
          probe' = [stage |-> "done", adapter |-> "HuggingFace", topic |-> probe.topic,
                    numQuestions |-> probe.numQuestions, data |-> probe.data, now |-> now,
                    result |-> generateQuizWithHuggingFace(probe.topic, probe.numQuestions,
                                                           probe.data, now)]
    /\ UNCHANGED <<req, hangs, pc, attempts, inflight, sent, variant>>

NextProbe == ProbeGemini \/ ProbeHuggingFace

SpecProbe == InitProbe /\ [][NextProbe]_vars

\* an adapter has run on a generated text
ProbedText(adapter) ==
    /\ probe.stage = "done"
    /\ probe.adapter = adapter
    /\ probe.data.kind = "text"

(***************************************************************************)
(* C14: normalization recovers a JSON object embedded in prose: when the   *)
(* text does not parse directly, the first top-level balanced-brace span   *)
(* is parsed, and the attempt fails as unparseable only after both have    *)
(* failed; this holds for every adapter, the primary one included.         *)
(***************************************************************************)
\* the index of the "}" that closes the span opened before i at `depth`, 0
\* if there is none
RECURSIVE ClosingBrace(_, _, _)
ClosingBrace(s, i, depth) ==
    IF i > Len(s) THEN 0
    ELSE LET c == CharAt(s, i)
             d == IF c = "{" THEN depth + 1 ELSE IF c = "}" THEN depth - 1 ELSE depth
         IN  IF c = "}" /\ d = 0 THEN i ELSE ClosingBrace(s, i + 1, d)

\* the first top-level balanced-brace span of s
FirstBalancedSpan(s) ==
    LET opens == {i \in 1..Len(s) : CharAt(s, i) = "{"}
    IN  IF opens = {} THEN [matched |-> FALSE]
        ELSE LET lo == CHOOSE i \in opens : \A j \in opens : i <= j
                 hi == ClosingBrace(s, lo, 0)
             IN  IF hi = 0 THEN [matched |-> FALSE]
                 ELSE [matched |-> TRUE, text |-> SubSeq(s, lo, hi)]

\* the object the claim recovers from a text: the direct parse, else the
\* parse of the first balanced span
Recovered(text) ==
    LET direct == JSONparse(cleanText(text))
        span == FirstBalancedSpan(text)
        scanned == IF span.matched THEN JSONparse(span.text) ELSE [ok |-> FALSE]
    IN  IF direct.ok /\ ~direct.isNull THEN [ok |-> TRUE, value |-> direct.value]
        ELSE IF scanned.ok /\ ~scanned.isNull THEN [ok |-> TRUE, value |-> scanned.value]
        ELSE [ok |-> FALSE]

\* quiz carries every property of obj except the metadata the adapter sets
CarriesObject(quiz, obj) ==
    \A k \in DOMAIN obj \ {"source", "generated_at"} :
        k \in DOMAIN quiz /\ quiz[k] = obj[k]

Cex_C14_EmbeddedObjectRecovered ==
    \A adapter \in NetworkProviders :
        ProbedText(adapter) =>
            LET e == Recovered(probe.data.text)
            IN  e.ok => probe.result.ok /\ CarriesObject(probe.result.quiz, e.value)

(***************************************************************************)
(* C15: normalization strips a leading "~~~json" in any letter case or a   *)
(* bare "~~~", and a trailing "~~~": a payload wrapped in any of these     *)
(* fences parses to the same object as the payload alone ("~" stands for   *)
(* the backtick).                                                          *)
(***************************************************************************)
FenceMarkers == {"~~~json", "~~~JSON", "~~~"}

Cex_C15_FencedPayloadParsesAlike ==
    ProbedText("Gemini") =>
        \A lead \in FenceMarkers, j \in DOMAIN JSONTable :
            probe.data.text = lead \o "\n" \o j \o "\n~~~" =>
                probe.result = generateQuizWithGemini(probe.topic, [kind |-> "text", text |-> j],
                                                      probe.now)

(***************************************************************************)
(* C17: when the Hugging Face adapter receives free-form text with no      *)
(* embedded JSON object, the quiz it yields is (as claimed) the output of  *)
(* generateFallbackQuiz for the same topic and count, generated_at aside:  *)
(* same title, same questions, source "Fallback quiz for <topic>".         *)
(* As the code has it: the quiz is the one of createStructuredQuiz, which  *)
(* shares the title, the count and each question's type and difficulty     *)
(* with the fallback quiz, but words its questions differently and has the *)
(* source "AI-generated quiz about <topic>".                               *)
(***************************************************************************)
\* the adapter has run on a non-empty generated text without any "{"
ProbedFreeFormText ==
    /\ ProbedText("HuggingFace")
    /\ probe.data.text # ""
    /\ \A i \in 1..Len(probe.data.text) : CharAt(probe.data.text, i) # "{"

\* obj without its generated_at
SansGeneratedAt(obj) == [k \in DOMAIN obj \ {"generated_at"} |-> obj[k]]

Cex_C17_FreeFormTextYieldsFallbackQuiz ==
    ProbedFreeFormText =>
        /\ probe.result.ok
        /\ SansGeneratedAt(probe.result.quiz)
              = SansGeneratedAt(generateFallbackQuiz(probe.topic, probe.numQuestions, probe.now))

Thm_C17_FreeFormTextYieldsStructuredQuiz ==
    ProbedFreeFormText =>
        /\ probe.result.ok
        /\ LET quiz == probe.result.quiz
               fallback == generateFallbackQuiz(probe.topic, probe.numQuestions, probe.now)
           IN  /\ quiz.title = probe.topic \o " Quiz"
               /\ quiz.title = fallback.title
               /\ quiz.source = "AI-generated quiz about " \o probe.topic
               /\ quiz.total_questions = probe.numQuestions
               /\ Len(quiz.questions) = probe.numQuestions
               /\ \A k \in 1..Len(quiz.questions) :
                     /\ quiz.questions[k].type = fallback.questions[k].type
                     /\ quiz.questions[k].difficulty = fallback.questions[k].difficulty
                     /\ quiz.questions[k].question # fallback.questions[k].question

\* the adapter has answered "not json at all" with a quiz of both types
Wit_C17_StructuredQuizFromProse ==
    /\ ProbedFreeFormText
    /\ probe.data.text = "not json at all"
    /\ probe.result.ok
    /\ Len(probe.result.quiz.questions) >= 2

(***************************************************************************)
(* C20: a quiz returned through the Hugging Face path comes from the       *)
(* generated text or from the templates only: when the backend answers     *)
(* without any generated_text, the adapter returns the templated           *)
(* structured quiz with exactly count questions, never an object parsed    *)
(* out of the caller's topic, even when the topic has "{" and "}" in it.   *)
(***************************************************************************)
Cex_C20_NoTextYieldsTemplatedQuiz ==
    /\ probe.stage = "done"
    /\ probe.adapter = "HuggingFace"
    /\ probe.data.kind = "no-generated-text"
    => /\ probe.result.ok
       /\ "questions" \in DOMAIN probe.result.quiz
       /\ Len(probe.result.quiz.questions) = probe.numQuestions
       /\ probe.result.quiz.source = "AI-generated quiz about " \o probe.topic

====
